---- MODULE Spec2Model ----
(***************************************************************************)
(* The actor/mailbox primitive of src/src/common/actor.rs.                 *)
(*                                                                         *)
(* Spec / FairSpec: one actor started by                                   *)
(* SingleThreadedActor::start_mailbox_loop (Rc<RefCell<..>> cells, tasks   *)
(* of one cooperative scheduler, so one poll of a task is one step).       *)
(* CallerSpec: the same with callers that poll again or give up.           *)
(* LazySpec: the same with the future of handle() created, polled and      *)
(* dropped in steps of their own.                                          *)
(* ChannelSpec: one AsyncRequestResponse per call over Arc<RwLock<..>>     *)
(* cells, its receive side and its transmit side on two threads, so every  *)
(* call_mut is a step of its own. ReuseSpec: its transmit side used twice. *)
(* CellSpec: the Shared Cells of src/src/common/shared_state.rs.           *)
(* LockSpec: the acquisitions of cells the operations of an Address and    *)
(* its Mailbox make, for both aliases of Address.                          *)
(* FlagSpec: SubmessageFlag. DataSpec: Data::read_from with DataContext.   *)
(***************************************************************************)
EXTENDS Integers, Sequences, FiniteSets, TLC

\* Number of Address::handle calls (one channel, one caller task each).
MaxCalls == 2
\* Requests are the integers 1..MaxReq.
MaxReq == 2

\* Number of channels whose transmit side is used a second time (ReuseSpec).
MaxChans == 1

Calls == 1..MaxCalls
Chans == 1..MaxChans
Reqs == 1..MaxReq

VARIABLES
    request,        \* request[c]: the channel's Option<Request> cell
    response,       \* response[c]: the channel's Option<Result<Response>> cell
    waker,          \* waker[c]: the channel's Option<Waker> cell
    pending,        \* the shared VecDeque of channels (Address/Mailbox)
    mailbox_waker,  \* the shared Option<Waker> of the driving task
    cancel_flag,    \* the shared bool
    actor,          \* Mailbox.actor: Option<A>
    mailboxAlive,   \* the Mailbox value has not been dropped
    driver,         \* the spawned driving task
    joined,         \* what the JoinHandle yields: Option<A>
    caller,         \* caller[c]: the task awaiting channel c
    notified,       \* tasks whose Waker was fired and that were not polled since
    result,         \* result[c]: what the caller's await returned (Option)
    tx,             \* tx[c]: the thread holding the transmit side (ChannelSpec)
    reqOf,          \* history: the request given to the c-th call
    issued,         \* history: channels in the order of their push_back
    served,         \* history: channels in the order of Actor::handle
    lateCalls,      \* history: channels pushed while cancel_flag was set
    reshut,         \* history: shutdown() was called with cancel_flag set
    deliveries,     \* history: deliveries[c]: polls of c that returned Ready
    flag,           \* a SubmessageFlag and the last operation on it (FlagSpec)
    sh,             \* Shared Cells, their handles and the last operation (CellSpec)
    lk,             \* threads inside call_mut closures of an Address's cells (LockSpec)
    rd              \* a Reader with its DataContext, reading one Data (DataSpec)

vars == <<request, response, waker, pending, mailbox_waker, cancel_flag, actor,
          mailboxAlive, driver, joined, caller, notified, result, tx, reqOf,
          issued, served, lateCalls, reshut, deliveries, flag, sh, lk, rd>>

\* Option<T>: None, Some(x)
None == <<>>
Some(x) == <<x>>
Unwrap(o) == o[1]

\* Result<T>: Ok(v), Err(AsyncError)
Ok(v) == <<"Ok", v>>
Err(e) == <<"Err", e>>
Abort == "Abort"
Shutdown == "Shutdown"

Range(s) == {s[i] : i \in 1..Len(s)}

\* The handler of the actor under test: it doubles its request.
F(r) == 2 * r

\* Actor::handle(&mut self, request) -> Response: the actor records the
\* request in its own state and answers F(request).
ActorHandle(state, r) == [state |-> Append(state, r), response |-> F(r)]

\* The actor handed to start_mailbox_loop.
InitialActor == <<>>

ActorInit ==
    /\ request = [c \in Calls |-> None]
    /\ response = [c \in Calls |-> None]
    /\ waker = [c \in Calls |-> "None"]
    /\ pending = <<>>
    /\ mailbox_waker = "None"
    /\ cancel_flag = FALSE
    /\ actor = Some(InitialActor)
    /\ mailboxAlive = TRUE
    /\ driver = "scheduled"
    /\ joined = None
    /\ caller = [c \in Calls |-> "idle"]
    /\ notified = {}
    /\ result = [c \in Calls |-> None]
    /\ tx = [c \in Calls |-> [pc |-> "idle", req |-> None, retaken |-> FALSE,
                             req2 |-> None, second |-> None]]
    /\ reqOf = [c \in Calls |-> 0]
    /\ issued = <<>>
    /\ served = <<>>
    /\ lateCalls = {}
    /\ reshut = FALSE
    /\ deliveries = [c \in Calls |-> 0]

\* SubmessageFlag { flags: 0x00 }, no operation applied yet.
NoFlag == [flags |-> 0, prev |-> 0, mask |-> 0, op |-> "new", out |-> "none"]

\* Handles of Shared Cells, cell values.
MaxHandles == 3
Handles == 1..MaxHandles
CellVals == 0..MaxReq

\* No Shared Cell has been created.
NoCells == [cellOf |-> [h \in Handles |-> 0], fam |-> [h \in Handles |-> "none"],
            val |-> [k \in Handles |-> 0], root |-> [h \in Handles |-> 0],
            written |-> [k \in Handles |-> 0],
            last |-> [op |-> "none", h |-> 0, value |-> 0]]

\* The cells of one Address/Mailbox pair and of its channels.
LockCells ==
    {<<"pending", 0>>, <<"mailbox_waker", 0>>, <<"cancel_flag", 0>>}
        \cup {<<k, c>> : k \in {"request", "response", "waker"}, c \in Chans}

\* The threads (or tasks) that use the pair: a caller of handle() per
\* channel, the driver running its loop body on the first channel, a
\* caller of shutdown(), and the one that drops the Mailbox.
LockThreads ==
    {<<"handle", c>> : c \in Chans}
        \cup {<<"resolve", 1>>, <<"shutdown", 0>>, <<"drop", 0>>}

NoThread == <<"none", 0>>

\* No thread uses the pair.
NoLocks == [alias |-> "SingleThreadedAddress",
            pc |-> [t \in LockThreads |-> <<>>],
            held |-> [x \in LockCells |-> {}],
            q |-> <<>>,
            created |-> [c \in Chans |-> FALSE],
            resp |-> [c \in Chans |-> FALSE],
            stored |-> [c \in Chans |-> FALSE],
            fired |-> [c \in Chans |-> FALSE],
            running |-> NoThread,
            failure |-> "none"]

\* No Data submessage is being read.
NoData == [pc |-> "idle", status |-> "idle", flags |-> 0, initial |-> 0,
           buf |-> 0, consumed |-> 0, length_remaining |-> 0,
           wrapped |-> FALSE, qos |-> <<>>, is_pl |-> FALSE,
           build |-> "debug", tracks |-> FALSE, payload |-> None,
           before |-> 0]

Init ==
    ActorInit /\ flag = NoFlag /\ sh = NoCells /\ lk = NoLocks /\ rd = NoData

\* The cells and the task state the operations below read and write, as one
\* value, so that an operation is a function from this value to the next one.
Cur == [request |-> request, response |-> response, waker |-> waker,
        pending |-> pending, mailbox_waker |-> mailbox_waker,
        cancel_flag |-> cancel_flag, notified |-> notified, driver |-> driver]

Commit(s) ==
    /\ request' = s.request
    /\ response' = s.response
    /\ waker' = s.waker
    /\ pending' = s.pending
    /\ mailbox_waker' = s.mailbox_waker
    /\ cancel_flag' = s.cancel_flag
    /\ notified' = s.notified
    /\ driver' = s.driver

(***************************************************************************)
(* AsyncRequestResponse                                                    *)
(***************************************************************************)

\* AsyncRequestResponse::new(req): Some(req), None, None.
NewChannel(s, c, r) ==
    [s EXCEPT !.request[c] = Some(r), !.response[c] = None, !.waker[c] = "None"]

\* A write that keeps a response that is already stored.
SetResponseIfEmpty(s, c, v) ==
    IF s.response[c] = None THEN [s EXCEPT !.response[c] = Some(v)] ELSE s

\* wake_with_response, first call_mut: *inner_response = Some(response).
SetResponse(s, c, v) == [s EXCEPT !.response[c] = Some(v)]

\* wake_with_response, second call_mut: take the stored waker and wake it.
FireWaker(s, c) ==
    IF s.waker[c] # "None"
    THEN [s EXCEPT !.waker[c] = "None", !.notified = @ \cup {c}]
    ELSE s

WakeWithResponse(s, c, v) == FireWaker(SetResponse(s, c, v), c)

\* A take_request that clones the request out and leaves it in the cell.
PeekRequest(s, c) == [value |-> s.request[c], s |-> s]

\* take_request: inner_request.take().
TakeRequest(s, c) ==
    [value |-> s.request[c], s |-> [s EXCEPT !.request[c] = None]]

\* A take_response that reads the response and leaves it in the cell.
PeekResponse(s, c) == [value |-> s.response[c], s |-> s]

\* take_response: inner_response.take().
TakeResponse(s, c) ==
    [value |-> s.response[c], s |-> [s EXCEPT !.response[c] = None]]

\* update_waker: *inner_waker = Some(waker), the waker of the polling task.
UpdateWaker(s, c) == [s EXCEPT !.waker[c] = "caller"]

\* Future::poll: Ready(response) if a response was there, else store the
\* waker and return Pending.
PollChannel(s, c) ==
    LET t == TakeResponse(s, c) IN
    IF t.value # None
    THEN [ready |-> TRUE, out |-> t.value, s |-> t.s]
    ELSE [ready |-> FALSE, out |-> None, s |-> UpdateWaker(t.s, c)]

(***************************************************************************)
(* Address                                                                 *)
(***************************************************************************)

\* wake_mailbox: take the mailbox waker, if any, and wake the driving task.
WakeMailbox(s) ==
    IF s.mailbox_waker # "None"
    THEN [s EXCEPT !.mailbox_waker = "None",
                   !.driver = IF @ = "parked" THEN "scheduled" ELSE @]
    ELSE s

\* The body of Address::handle up to its await: new, clone, push_back,
\* wake_mailbox.
Enqueue(s, c, r) ==
    WakeMailbox([NewChannel(s, c, r) EXCEPT !.pending = Append(@, c)])

\* A shutdown that also empties the pending queue.
SetCancelAndClear(s) ==
    [WakeMailbox([s EXCEPT !.cancel_flag = TRUE]) EXCEPT !.pending = <<>>]

\* Address::shutdown: set the flag, wake the mailbox.
SetCancel(s) == WakeMailbox([s EXCEPT !.cancel_flag = TRUE])

(***************************************************************************)
(* Mailbox                                                                 *)
(***************************************************************************)

RECURSIVE DrainWith(_, _, _)
DrainWith(s, q, e) ==
    IF q = <<>> THEN s
    ELSE DrainWith(WakeWithResponse(s, Head(q), Err(e)), Tail(q), e)

\* A drain that stops after the oldest channel.
StopOldestPendingWithError(s, e) ==
    IF s.pending = <<>> THEN s
    ELSE [WakeWithResponse(s, Head(s.pending), Err(e))
            EXCEPT !.pending = Tail(s.pending)]

\* A stop_all_pending_with_error that iterates over the queue and leaves the
\* channels in it.
StopAllPendingKeepQueue(s, e) == DrainWith(s, s.pending, e)

\* stop_all_pending_with_error: drain(..) the queue, waking every channel
\* with Err(error).
StopAllPendingWithError(s, e) ==
    [DrainWith(s, s.pending, e) EXCEPT !.pending = <<>>]

\* A Drop that reports a shutdown.
DropErrorShutdown == Shutdown

\* The error Drop for Mailbox resolves the leftovers with.
DropError == Abort

\* Drop for Mailbox.
DropMailbox(s) == StopAllPendingWithError(s, DropError)

\* Stream::poll_next as it stands in the source: the two branches are
\* comments ("TBD"), the body is Poll::Pending. It reads neither the flag
\* nor the queue and stores no waker.
PollNext(s) == [kind |-> "Pending", item |-> None, s |-> s]

(***************************************************************************)
(* Steps of the single-scheduler actor (Spec)                              *)
(***************************************************************************)

\* A handle() that calls the actor itself instead of going through the
\* mailbox.
HandleInline(c, r) ==
    /\ caller[c] = "idle"
    /\ actor # None
    /\ LET h == ActorHandle(Unwrap(actor), r) IN
        /\ actor' = Some(h.state)
        /\ result' = [result EXCEPT ![c] = Some(Ok(h.response))]
    /\ caller' = [caller EXCEPT ![c] = "done"]
    /\ deliveries' = [deliveries EXCEPT ![c] = @ + 1]
    /\ reqOf' = [reqOf EXCEPT ![c] = r]
    /\ issued' = Append(issued, c)
    /\ served' = Append(served, c)
    /\ UNCHANGED <<request, response, waker, pending, mailbox_waker,
                   cancel_flag, notified, driver, mailboxAlive, joined, tx,
                   lateCalls, reshut, flag, sh, lk, rd>>

\* A task calls address.handle(r).await: the first poll of that future runs
\* the body to its await and polls the channel once, all in one task poll.
Handle(c, r) ==
    /\ caller[c] = "idle"
    /\ LET p == PollChannel(Enqueue(Cur, c, r), c) IN
        /\ Commit(p.s)
        /\ caller' = [caller EXCEPT ![c] = IF p.ready THEN "done" ELSE "parked"]
        /\ result' = [result EXCEPT ![c] = p.out]
        /\ deliveries' = [deliveries EXCEPT ![c] = IF p.ready THEN @ + 1 ELSE @]
    /\ reqOf' = [reqOf EXCEPT ![c] = r]
    /\ issued' = Append(issued, c)
    /\ lateCalls' = IF cancel_flag THEN lateCalls \cup {c} ELSE lateCalls
    /\ UNCHANGED <<actor, mailboxAlive, joined, tx, served>>
    /\ UNCHANGED <<reshut, flag, sh, lk, rd>>

\* The scheduler polls a caller whose waker was fired.
CallerPoll(c) ==
    /\ caller[c] = "parked"
    /\ c \in notified
    /\ LET p == PollChannel([Cur EXCEPT !.notified = @ \ {c}], c) IN
        /\ Commit(p.s)
        /\ caller' = [caller EXCEPT ![c] = IF p.ready THEN "done" ELSE "parked"]
        /\ result' = [result EXCEPT ![c] = p.out]
        /\ deliveries' = [deliveries EXCEPT ![c] = IF p.ready THEN @ + 1 ELSE @]
    /\ UNCHANGED <<actor, mailboxAlive, joined, tx, reqOf, issued, served,
                   lateCalls>>
    /\ UNCHANGED <<reshut, flag, sh, lk, rd>>

\* The awaitable of a call that already returned Ready is polled again (by
\* hand, or through a clone of the channel): Future::poll once more.
RePoll(c) ==
    /\ caller[c] = "done"
    /\ LET p == PollChannel([Cur EXCEPT !.notified = @ \ {c}], c) IN
        /\ Commit(p.s)
        /\ result' = [result EXCEPT ![c] = IF p.ready THEN p.out ELSE @]
        /\ deliveries' = [deliveries EXCEPT ![c] = IF p.ready THEN @ + 1 ELSE @]
    /\ UNCHANGED <<actor, mailboxAlive, joined, caller, tx, reqOf, issued,
                   served, lateCalls, reshut, flag, sh, lk, rd>>

\* The caller gives up: the future returned by handle() is dropped while it
\* is pending. The channel's cells live on through the clone in the queue.
CallerDrop(c) ==
    /\ caller[c] = "parked"
    /\ caller' = [caller EXCEPT ![c] = "dropped"]
    /\ UNCHANGED <<request, response, waker, pending, mailbox_waker,
                   cancel_flag, notified, driver, actor, mailboxAlive, joined,
                   result, tx, reqOf, issued, served, lateCalls, reshut,
                   deliveries, flag, sh, lk, rd>>

\* Some holder of an Address clone calls shutdown().
ShutdownCall ==
    /\ Commit(SetCancel(Cur))
    /\ reshut' = (reshut \/ cancel_flag)
    /\ UNCHANGED <<actor, mailboxAlive, joined, caller, result, tx, reqOf,
                   issued, served, lateCalls>>
    /\ UNCHANGED <<deliveries, flag, sh, lk, rd>>

\* One turn of the driving task: `while let Some(async_rr) =
\* mailbox.next().await { .. }` and what follows the loop.
DriverStep ==
    /\ driver = "scheduled"
    /\ mailboxAlive
    /\ LET p == PollNext(Cur) IN
        IF p.kind = "Pending"
        THEN \* mailbox.next() is pending: the task is suspended
            /\ Commit([p.s EXCEPT !.driver = "parked"])
            /\ UNCHANGED <<actor, mailboxAlive, joined, served>>
        ELSE IF p.item # None
        THEN \* Ready(Some(async_rr)): the loop body
            LET c == Unwrap(p.item)
                t == TakeRequest(p.s, c)
                h == ActorHandle(Unwrap(actor), Unwrap(t.value))
            IN  /\ Commit(WakeWithResponse(t.s, c, Ok(h.response)))
                /\ actor' = Some(h.state)
                /\ served' = Append(served, c)
                /\ UNCHANGED <<mailboxAlive, joined>>
        ELSE \* Ready(None): leave the loop, take the actor, drop the mailbox
            /\ Commit(DropMailbox([p.s EXCEPT !.driver = "done"]))
            /\ joined' = actor
            /\ actor' = None
            /\ mailboxAlive' = FALSE
            /\ UNCHANGED served
    /\ UNCHANGED <<caller, result, tx, reqOf, issued, lateCalls>>
    /\ UNCHANGED <<reshut, deliveries, flag, sh, lk, rd>>

\* The driving task is destroyed before its loop ended (its JoinHandle is
\* aborted, or its scheduler is dropped): the Mailbox it owns is dropped.
MailboxDrop ==
    /\ mailboxAlive
    /\ driver \in {"scheduled", "parked"}
    /\ Commit(DropMailbox([Cur EXCEPT !.driver = "aborted"]))
    /\ actor' = None
    /\ mailboxAlive' = FALSE
    /\ UNCHANGED <<joined, caller, result, tx, reqOf, issued, served, lateCalls>>
    /\ UNCHANGED <<reshut, deliveries, flag, sh, lk, rd>>

Next ==
    \/ \E c \in Calls, r \in Reqs : Handle(c, r)
    \/ \E c \in Calls : CallerPoll(c)
    \/ ShutdownCall
    \/ DriverStep
    \/ MailboxDrop

Spec == Init /\ [][Next]_vars

\* The scheduler polls every task that is ready to run; calls to handle and
\* shutdown, and the destruction of the driving task, are up to the program.
FairSpec ==
    /\ Spec
    /\ WF_vars(DriverStep)
    /\ \A c \in Calls : WF_vars(CallerPoll(c))

\* The same actor with callers that also poll a completed awaitable again or
\* drop a pending one.
CallerNext ==
    \/ \E c \in Calls, r \in Reqs : Handle(c, r)
    \/ \E c \in Calls : CallerPoll(c)
    \/ \E c \in Calls : RePoll(c)
    \/ \E c \in Calls : CallerDrop(c)
    \/ ShutdownCall
    \/ DriverStep
    \/ MailboxDrop

CallerSpec == Init /\ [][CallerNext]_vars

FairCallerSpec ==
    /\ CallerSpec
    /\ WF_vars(DriverStep)
    /\ \A c \in Calls : WF_vars(CallerPoll(c))

(***************************************************************************)
(* The future of handle() as a value of its own (LazySpec)                 *)
(*                                                                         *)
(* handle is an `async fn`: the call builds the future, which holds &self  *)
(* and the request and has run nothing of the body. The body runs when the *)
(* future is polled. Spec's Handle is the call awaited on the spot; here   *)
(* the call, the first poll and the drop of the future are separate steps. *)
(***************************************************************************)

\* A handle() that runs its body up to the await when it is called.
HandleCallEager(c, r) ==
    /\ caller[c] = "idle"
    /\ Commit(Enqueue(Cur, c, r))
    /\ caller' = [caller EXCEPT ![c] = "called"]
    /\ reqOf' = [reqOf EXCEPT ![c] = r]
    /\ issued' = Append(issued, c)
    /\ lateCalls' = IF cancel_flag THEN lateCalls \cup {c} ELSE lateCalls
    /\ UNCHANGED <<actor, mailboxAlive, joined, result, tx, served, reshut,
                   deliveries, flag, sh, lk, rd>>

\* let fut = address.handle(r): the future is created, nothing has run.
HandleCall(c, r) ==
    /\ caller[c] = "idle"
    /\ caller' = [caller EXCEPT ![c] = "called"]
    /\ reqOf' = [reqOf EXCEPT ![c] = r]
    /\ UNCHANGED <<request, response, waker, pending, mailbox_waker,
                   cancel_flag, notified, driver, actor, mailboxAlive, joined,
                   result, tx, issued, served, lateCalls, reshut, deliveries,
                   flag, sh, lk, rd>>

\* The first poll of the future: the body of handle runs to its await (new,
\* clone, push_back, wake_mailbox) and the channel is polled once.
FirstPoll(c) ==
    /\ caller[c] = "called"
    /\ LET p == PollChannel(Enqueue(Cur, c, reqOf[c]), c) IN
        /\ Commit(p.s)
        /\ caller' = [caller EXCEPT ![c] = IF p.ready THEN "done" ELSE "parked"]
        /\ result' = [result EXCEPT ![c] = p.out]
        /\ deliveries' = [deliveries EXCEPT ![c] = IF p.ready THEN @ + 1 ELSE @]
    /\ issued' = Append(issued, c)
    /\ lateCalls' = IF cancel_flag THEN lateCalls \cup {c} ELSE lateCalls
    /\ UNCHANGED <<actor, mailboxAlive, joined, tx, reqOf, served, reshut,
                   flag, sh, lk, rd>>

\* The future is dropped before it was ever polled: the request it holds is
\* dropped with it.
FutureDrop(c) ==
    /\ caller[c] = "called"
    /\ caller' = [caller EXCEPT ![c] = "dropped"]
    /\ UNCHANGED <<request, response, waker, pending, mailbox_waker,
                   cancel_flag, notified, driver, actor, mailboxAlive, joined,
                   result, tx, reqOf, issued, served, lateCalls, reshut,
                   deliveries, flag, sh, lk, rd>>

LazyNext ==
    \/ \E c \in Calls, r \in Reqs : HandleCall(c, r)
    \/ \E c \in Calls : FirstPoll(c)
    \/ \E c \in Calls : FutureDrop(c)
    \/ \E c \in Calls : CallerPoll(c)
    \/ ShutdownCall
    \/ DriverStep
    \/ MailboxDrop

LazySpec == Init /\ [][LazyNext]_vars

(***************************************************************************)
(* Steps of a channel shared by two threads (ChannelSpec)                  *)
(*                                                                         *)
(* The use the header comment of AsyncRequestResponse describes: the       *)
(* channel is created, its clone is sent to another thread; the receive    *)
(* side awaits it, the transmit side takes the request and calls           *)
(* wake_with_response. With Arc<RwLock<..>> cells each call_mut takes and  *)
(* releases its own lock, so the threads interleave between two call_mut.  *)
(***************************************************************************)

\* let channel_rx = AsyncRequestResponse::new(request);
\* let channel_tx = channel_rx.clone();
ChNew(c, r) ==
    /\ caller[c] = "idle"
    /\ Commit(NewChannel(Cur, c, r))
    /\ caller' = [caller EXCEPT ![c] = "created"]
    /\ reqOf' = [reqOf EXCEPT ![c] = r]
    /\ UNCHANGED <<actor, mailboxAlive, joined, result, tx, issued, served,
                   lateCalls>>
    /\ UNCHANGED <<reshut, deliveries, flag, sh, lk, rd>>

\* Future::poll, its take_response: the task is polled for the first time or
\* after its waker was fired.
RxTake(c) ==
    /\ \/ caller[c] = "created"
       \/ caller[c] = "parked" /\ c \in notified
    /\ LET t == TakeResponse([Cur EXCEPT !.notified = @ \ {c}], c) IN
        /\ Commit(t.s)
        /\ caller' = [caller EXCEPT ![c] =
                        IF t.value # None THEN "done" ELSE "polling"]
        /\ result' = [result EXCEPT ![c] = t.value]
        /\ deliveries' = [deliveries EXCEPT ![c] =
                            IF t.value # None THEN @ + 1 ELSE @]
    /\ UNCHANGED <<actor, mailboxAlive, joined, tx, reqOf, issued, served,
                   lateCalls>>
    /\ UNCHANGED <<reshut, flag, sh, lk, rd>>

\* Future::poll, its update_waker, then Poll::Pending.
RxStore(c) ==
    /\ caller[c] = "polling"
    /\ Commit(UpdateWaker(Cur, c))
    /\ caller' = [caller EXCEPT ![c] = "parked"]
    /\ UNCHANGED <<actor, mailboxAlive, joined, result, tx, reqOf, issued,
                   served, lateCalls>>
    /\ UNCHANGED <<reshut, deliveries, flag, sh, lk, rd>>

\* let request = channel_tx.take_request();
TxTakeRequest(c) ==
    /\ tx[c].pc = "idle"
    /\ caller[c] # "idle"
    /\ LET t == TakeRequest(Cur, c) IN
        /\ Commit(t.s)
        /\ tx' = [tx EXCEPT ![c].pc = "taken", ![c].req = t.value]
    /\ UNCHANGED <<actor, mailboxAlive, joined, caller, result, reqOf, issued,
                   served, lateCalls>>
    /\ UNCHANGED <<reshut, deliveries, flag, sh, lk, rd>>

\* channel_tx.wake_with_response(response), its first call_mut.
TxWrite(c) ==
    /\ tx[c].pc = "taken"
    /\ Commit(SetResponse(Cur, c, Ok(F(Unwrap(tx[c].req)))))
    /\ tx' = [tx EXCEPT ![c].pc = "wrote"]
    /\ UNCHANGED <<actor, mailboxAlive, joined, caller, result, reqOf, issued,
                   served, lateCalls>>
    /\ UNCHANGED <<reshut, deliveries, flag, sh, lk, rd>>

\* channel_tx.wake_with_response(response), its second call_mut.
TxWake(c) ==
    /\ tx[c].pc = "wrote"
    /\ Commit(FireWaker(Cur, c))
    /\ tx' = [tx EXCEPT ![c].pc = "done"]
    /\ UNCHANGED <<actor, mailboxAlive, joined, caller, result, reqOf, issued,
                   served, lateCalls>>
    /\ UNCHANGED <<reshut, deliveries, flag, sh, lk, rd>>

ChannelNext ==
    \/ \E c \in Calls, r \in Reqs : ChNew(c, r)
    \/ \E c \in Calls : RxTake(c)
    \/ \E c \in Calls : RxStore(c)
    \/ \E c \in Calls : TxTakeRequest(c)
    \/ \E c \in Calls : TxWrite(c)
    \/ \E c \in Calls : TxWake(c)

ChannelSpec == Init /\ [][ChannelNext]_vars

(***************************************************************************)
(* A channel whose transmit side is used twice (ReuseSpec)                 *)
(*                                                                         *)
(* ChannelSpec, and a transmit side that holds a second clone of the       *)
(* channel: it calls take_request again, and after its first               *)
(* wake_with_response has returned it calls wake_with_response on the      *)
(* other clone with some Result.                                           *)
(***************************************************************************)

\* The values a Result<Response> can take.
Results == {Ok(F(r)) : r \in Reqs} \cup {Err(Abort), Err(Shutdown)}

\* A second channel_tx.take_request(), on any clone.
TxTakeAgain(c) ==
    /\ tx[c].pc # "idle"
    /\ ~tx[c].retaken
    /\ LET t == TakeRequest(Cur, c) IN
        /\ Commit(t.s)
        /\ tx' = [tx EXCEPT ![c].retaken = TRUE, ![c].req2 = t.value]
    /\ UNCHANGED <<actor, mailboxAlive, joined, caller, result, reqOf, issued,
                   served, lateCalls, reshut, deliveries, flag, sh, lk, rd>>

\* A second wake_with_response(v), its first call_mut.
TxWriteAgain(c, v) ==
    /\ tx[c].pc = "done"
    /\ Commit(SetResponse(Cur, c, v))
    /\ tx' = [tx EXCEPT ![c].pc = "wrote2", ![c].second = Some(v)]
    /\ UNCHANGED <<actor, mailboxAlive, joined, caller, result, reqOf, issued,
                   served, lateCalls, reshut, deliveries, flag, sh, lk, rd>>

\* A second wake_with_response(v), its second call_mut.
TxWakeAgain(c) ==
    /\ tx[c].pc = "wrote2"
    /\ Commit(FireWaker(Cur, c))
    /\ tx' = [tx EXCEPT ![c].pc = "done2"]
    /\ UNCHANGED <<actor, mailboxAlive, joined, caller, result, reqOf, issued,
                   served, lateCalls, reshut, deliveries, flag, sh, lk, rd>>

ReuseNext ==
    \/ \E c \in Chans, r \in Reqs : ChNew(c, r)
    \/ \E c \in Chans : RxTake(c)
    \/ \E c \in Chans : RxStore(c)
    \/ \E c \in Chans : TxTakeRequest(c)
    \/ \E c \in Chans : TxWrite(c)
    \/ \E c \in Chans : TxWake(c)
    \/ \E c \in Chans : TxTakeAgain(c)
    \/ \E c \in Chans, v \in Results : TxWriteAgain(c, v)
    \/ \E c \in Chans : TxWakeAgain(c)

ReuseSpec == Init /\ [][ReuseNext]_vars

(***************************************************************************)
(* SubmessageFlag (FlagSpec)                                               *)
(***************************************************************************)

\* pub flags: u8
BitWidth == 8
U8 == 0..(2^BitWidth - 1)
SingleBitMasks == {2^i : i \in 0..(BitWidth - 1)}

\* Bit i of the byte a.
Bit(a, i) == (a \div 2^i) % 2

RECURSIVE Byte(_, _)
\* The byte whose bit i is b[i], for i below n.
Byte(b, n) == IF n = 0 THEN 0 ELSE Byte(b, n - 1) + b[n - 1] * 2^(n - 1)

\* a | b, a & b and !a on u8.
BitOr(a, b) ==
    Byte([i \in 0..(BitWidth - 1) |->
            IF Bit(a, i) = 1 \/ Bit(b, i) = 1 THEN 1 ELSE 0], BitWidth)
BitAnd(a, b) ==
    Byte([i \in 0..(BitWidth - 1) |->
            IF Bit(a, i) = 1 /\ Bit(b, i) = 1 THEN 1 ELSE 0], BitWidth)
BitNot(a) == Byte([i \in 0..(BitWidth - 1) |-> 1 - Bit(a, i)], BitWidth)

\* set_flag: self.flags |= mask
SetFlagOp(flags, mask) == BitOr(flags, mask)

\* A clear_flag without the complement: self.flags &= mask
KeepFlagOp(flags, mask) == BitAnd(flags, mask)

\* clear_flag: self.flags &= !mask
ClearFlagOp(flags, mask) == BitAnd(flags, BitNot(mask))

\* is_flag_set: self.flags & mask != 0
IsFlagSet(flags, mask) == BitAnd(flags, mask) # 0

\* The mask endianness_flag tests: 0x01.
EndiannessMask == 1

\* An endianness_flag that tests the two low bits: is_flag_set(0x03).
EndiannessOfLowBits(flags) ==
    IF IsFlagSet(flags, 3) THEN "LittleEndian" ELSE "BigEndian"

\* endianness_flag: LittleEndian if is_flag_set(0x01), else BigEndian.
EndiannessFlag(flags) ==
    IF IsFlagSet(flags, EndiannessMask) THEN "LittleEndian" ELSE "BigEndian"

actorVars == <<request, response, waker, pending, mailbox_waker, cancel_flag,
               actor, mailboxAlive, driver, joined, caller, notified, result,
               tx, reqOf, issued, served, lateCalls, reshut, deliveries>>

\* SubmessageFlag { flags } with any byte (the field is public).
FlagInit ==
    /\ ActorInit
    /\ flag \in {[flags |-> f, prev |-> f, mask |-> 0, op |-> "new",
                  out |-> "none"] : f \in U8}
    /\ sh = NoCells
    /\ lk = NoLocks
    /\ rd = NoData

SetFlag(m) ==
    /\ flag' = [flags |-> SetFlagOp(flag.flags, m), prev |-> flag.flags,
                mask |-> m, op |-> "set", out |-> "none"]
    /\ UNCHANGED <<actorVars, sh, lk, rd>>

ClearFlag(m) ==
    /\ flag' = [flags |-> ClearFlagOp(flag.flags, m), prev |-> flag.flags,
                mask |-> m, op |-> "clear", out |-> "none"]
    /\ UNCHANGED <<actorVars, sh, lk, rd>>

\* flag.endianness_flag(): the flags are read, not changed.
ReadEndianness ==
    /\ flag' = [flags |-> flag.flags, prev |-> flag.flags,
                mask |-> EndiannessMask, op |-> "endianness",
                out |-> EndiannessFlag(flag.flags)]
    /\ UNCHANGED <<actorVars, sh, lk, rd>>

FlagNext ==
    \/ \E m \in SingleBitMasks : SetFlag(m)
    \/ \E m \in SingleBitMasks : ClearFlag(m)
    \/ ReadEndianness

FlagSpec == FlagInit /\ [][FlagNext]_vars

(***************************************************************************)
(* Shared Cells (CellSpec)                                                 *)
(*                                                                         *)
(* SharedState<T> for Rc<RefCell<T>> and for Arc<RwLock<T>>: a handle is a *)
(* reference-counted pointer to a cell; new allocates the cell, clone      *)
(* copies the pointer, call and call_mut run a closure on the cell's       *)
(* value. A cell is named by the handle that new returned for it.          *)
(***************************************************************************)

Families == {"RcRefCell", "ArcRwLock"}

\* SharedState::new(state): Rc::new(RefCell::new(state)) or
\* Arc::new(RwLock::new(state)), returned as handle h.
NewCell(s, h, f, v) ==
    [s EXCEPT !.cellOf[h] = h, !.fam[h] = f, !.val[h] = v, !.root[h] = h,
              !.written[h] = v, !.last = [op |-> "new", h |-> h, value |-> v]]

\* A clone that allocates a cell of its own holding a copy of the value.
CloneByCopy(s, h, g) ==
    [s EXCEPT !.cellOf[g] = g, !.fam[g] = s.fam[h],
              !.val[g] = s.val[s.cellOf[h]], !.root[g] = s.root[h],
              !.last = [op |-> "clone", h |-> g, value |-> 0]]

\* Clone of a handle (Rc::clone, Arc::clone): g points to the cell of h.
CloneCell(s, h, g) ==
    [s EXCEPT !.cellOf[g] = s.cellOf[h], !.fam[g] = s.fam[h],
              !.root[g] = s.root[h],
              !.last = [op |-> "clone", h |-> g, value |-> 0]]

\* call_mut(|inner| *inner = v) through handle h.
CallMut(s, h, v) ==
    [s EXCEPT !.val[s.cellOf[h]] = v, !.written[s.root[h]] = v,
              !.last = [op |-> "call_mut", h |-> h, value |-> v]]

\* call(|inner| *inner) through handle h: the value read.
Call(s, h) ==
    [s EXCEPT !.last = [op |-> "call", h |-> h, value |-> s.val[s.cellOf[h]]]]

CellNew(h, f, v) ==
    /\ sh.cellOf[h] = 0
    /\ sh' = NewCell(sh, h, f, v)
    /\ UNCHANGED <<actorVars, flag, lk, rd>>

CellClone(h, g) ==
    /\ sh.cellOf[h] # 0
    /\ sh.cellOf[g] = 0
    /\ sh' = CloneCell(sh, h, g)
    /\ UNCHANGED <<actorVars, flag, lk, rd>>

CellCallMut(h, v) ==
    /\ sh.cellOf[h] # 0
    /\ sh' = CallMut(sh, h, v)
    /\ UNCHANGED <<actorVars, flag, lk, rd>>

CellCall(h) ==
    /\ sh.cellOf[h] # 0
    /\ sh' = Call(sh, h)
    /\ UNCHANGED <<actorVars, flag, lk, rd>>

CellNext ==
    \/ \E h \in Handles, f \in Families, v \in CellVals : CellNew(h, f, v)
    \/ \E h, g \in Handles : CellClone(h, g)
    \/ \E h \in Handles, v \in CellVals : CellCallMut(h, v)
    \/ \E h \in Handles : CellCall(h)

CellSpec == Init /\ [][CellNext]_vars

(***************************************************************************)
(* Acquisitions of the cells of an Address/Mailbox pair (LockSpec)         *)
(*                                                                         *)
(* Every access to a cell is a call_mut: the cell is acquired (borrow_mut, *)
(* or write()), the closure runs, the cell is released. An operation is    *)
(* the sequence of its acquisitions and releases; a closure that calls     *)
(* into another cell nests that cell's acquisition inside its own. With    *)
(* SingleThreadedAddress every task runs on one scheduler, and a task      *)
(* runs until it is done or pending; with MultiThreadedAddress threads     *)
(* interleave between any two instructions.                                *)
(***************************************************************************)

\* The cell families the two aliases of Address are instantiated with.
SingleThreadedAddress ==
    [request |-> "RcRefCell", response |-> "RcRefCell", waker |-> "RcRefCell",
     pending |-> "RcRefCell", mailbox_waker |-> "RcRefCell",
     cancel_flag |-> "RcRefCell"]

MultiThreadedAddress ==
    [request |-> "ArcRwLock", response |-> "ArcRwLock", waker |-> "ArcRwLock",
     pending |-> "ArcRwLock", mailbox_waker |-> "ArcRwLock",
     cancel_flag |-> "RcRefCell"]

AliasNames == {"SingleThreadedAddress", "MultiThreadedAddress"}

AddressAlias(a) ==
    IF a = "SingleThreadedAddress" THEN SingleThreadedAddress
    ELSE MultiThreadedAddress

FamilyOf(a, x) == AddressAlias(a)[x[1]]

\* cell.call_mut(closure): acquire, the closure's own effect `eff` with the
\* acquisitions `body` the closure makes, release.
CallMutProg(x, eff, body) ==
    <<<<"acq", x, eff>>>> \o body \o <<<<"rel", x, "none">>>>

\* A wake_with_response that writes the response inside the waker's closure.
WakeHoldingWakerProg(c) ==
    CallMutProg(<<"waker", c>>, "fire",
                CallMutProg(<<"response", c>>, "set", <<>>))

\* wake_with_response: response.call_mut(..); waker.call_mut(..).
WakeWithResponseProg(c) ==
    CallMutProg(<<"response", c>>, "set", <<>>)
        \o CallMutProg(<<"waker", c>>, "fire", <<>>)

\* take_request: request.call_mut(..).
TakeRequestProg(c) == CallMutProg(<<"request", c>>, "none", <<>>)

\* Future::poll: take_response; if it was None, update_waker.
PollProg(c) ==
    CallMutProg(<<"response", c>>, "take", <<>>)
        \o CallMutProg(<<"waker", c>>, "store", <<>>)

\* wake_mailbox: mailbox_waker.call_mut(..).
WakeMailboxProg == CallMutProg(<<"mailbox_waker", 0>>, "none", <<>>)

\* Address::handle, first poll: push_back, wake_mailbox, poll the channel.
HandleProg(c) ==
    CallMutProg(<<"pending", 0>>, "push", <<>>)
        \o WakeMailboxProg \o PollProg(c)

\* Address::shutdown: cancel_flag.call_mut(..), wake_mailbox.
ShutdownProg ==
    CallMutProg(<<"cancel_flag", 0>>, "none", <<>>) \o WakeMailboxProg

RECURSIVE DrainProg(_)
\* for arr in arrs.drain(..) { arr.wake_with_response(Err(error)) }
DrainProg(q) ==
    IF q = <<>> THEN <<>>
    ELSE WakeWithResponseProg(Head(q)) \o DrainProg(Tail(q))

\* stop_all_pending_with_error (Drop for Mailbox): pending.call_mut(drain);
\* the drain is unfolded over the queue when the cell is acquired.
StopAllPendingProg == CallMutProg(<<"pending", 0>>, "drain", <<>>)

\* The driver's loop body on a channel: take_request, Actor::handle,
\* wake_with_response.
ResolveProg(c) == TakeRequestProg(c) \o WakeWithResponseProg(c)

ProgramOf(t) ==
    CASE t[1] = "handle" -> HandleProg(t[2])
      [] t[1] = "resolve" -> ResolveProg(t[2])
      [] t[1] = "shutdown" -> ShutdownProg
      [] OTHER -> StopAllPendingProg

\* The pair as start_mailbox_loop leaves it, of either alias, with every
\* thread about to run its operation.
StartLocks(a) == [NoLocks EXCEPT !.alias = a,
                                 !.pc = [t \in LockThreads |-> ProgramOf(t)]]

HeldBy(s, t) == {x \in LockCells : t \in s.held[x]}

\* The thread's next instruction is an acquisition that has to wait: the
\* cell is a RwLock and another thread holds it.
Blocked(s, t) ==
    LET i == Head(s.pc[t]) IN
        /\ i[1] = "acq"
        /\ s.held[i[2]] \ {t} # {}
        /\ FamilyOf(s.alias, i[2]) = "ArcRwLock"

\* The thread has something to run: its operation is not finished, its
\* channel exists, and on a single scheduler no other task is running.
Runnable(s, t) ==
    /\ s.failure = "none"
    /\ s.pc[t] # <<>>
    /\ t[1] = "resolve" => s.created[t[2]]
    /\ s.alias = "SingleThreadedAddress" => s.running \in {NoThread, t}

CanStep(s, t) == Runnable(s, t) /\ ~Blocked(s, t)

\* The effect of the closure of an acquisition on the data and on the rest
\* of the operation.
Effect(s, t, i, rest) ==
    LET c == i[2][2] IN
    CASE i[3] = "push" ->
            [s EXCEPT !.q = Append(@, t[2]), !.created[t[2]] = TRUE,
                      !.pc[t] = rest]
      [] i[3] = "drain" ->
            [s EXCEPT !.q = <<>>, !.pc[t] = DrainProg(s.q) \o rest]
      [] i[3] = "set" -> [s EXCEPT !.resp[c] = TRUE, !.pc[t] = rest]
      [] i[3] = "fire" ->
            [s EXCEPT !.fired[c] = (@ \/ s.stored[c]), !.stored[c] = FALSE,
                      !.pc[t] = rest]
      [] i[3] = "take" ->
            IF s.resp[c]
            THEN [s EXCEPT !.resp[c] = FALSE,
                           !.pc[t] = SelectSeq(rest,
                                        LAMBDA j : j[2] # <<"waker", c>>)]
            ELSE [s EXCEPT !.pc[t] = rest]
      [] i[3] = "store" -> [s EXCEPT !.stored[c] = TRUE, !.pc[t] = rest]
      [] OTHER -> [s EXCEPT !.pc[t] = rest]

\* One instruction of thread t.
StepOf(s, t) ==
    LET i == Head(s.pc[t])
        rest == Tail(s.pc[t])
        x == i[2]
        u == IF i[1] = "rel"
             THEN [s EXCEPT !.held[x] = @ \ {t}, !.pc[t] = rest]
             ELSE IF t \in s.held[x]
             THEN \* the thread already holds the cell: BorrowMutError, or a
                  \* write() that waits for itself
                  [s EXCEPT !.failure = "reentrant"]
             ELSE IF s.held[x] # {} /\ s.alias = "SingleThreadedAddress"
             THEN \* a RefCell borrowed by a suspended task: BorrowMutError
                  [s EXCEPT !.failure = "borrowed"]
             ELSE \* free; or a RefCell reached from two threads, whose
                  \* borrow flag is no lock
                  Effect([s EXCEPT !.held[x] = @ \cup {t}], t, i, rest)
    IN  [u EXCEPT !.running = IF u.pc[t] = <<>> THEN NoThread ELSE t]

LkStep(t) ==
    /\ CanStep(lk, t)
    /\ lk' = StepOf(lk, t)
    /\ UNCHANGED <<actorVars, flag, sh, rd>>

\* The caller's task is polled again after its waker was fired.
LkRepoll(c) ==
    /\ lk.failure = "none"
    /\ lk.pc[<<"handle", c>>] = <<>>
    /\ lk.fired[c]
    /\ lk.alias = "SingleThreadedAddress" => lk.running = NoThread
    /\ lk' = [lk EXCEPT !.fired[c] = FALSE,
                         !.pc[<<"handle", c>>] = PollProg(c)]
    /\ UNCHANGED <<actorVars, flag, sh, rd>>

LockInit ==
    /\ ActorInit
    /\ flag = NoFlag
    /\ sh = NoCells
    /\ lk \in {StartLocks(a) : a \in AliasNames}
    /\ rd = NoData

LockNext ==
    \/ \E t \in LockThreads : LkStep(t)
    \/ \E c \in Chans : LkRepoll(c)

LockSpec == LockInit /\ [][LockNext]_vars

(***************************************************************************)
(* Reading a Data submessage (DataSpec)                                    *)
(*                                                                         *)
(* Data::read_from on a Reader whose context is a DataContext. The bytes   *)
(* are modelled by their number: `buf` bytes are left in the Reader's      *)
(* input, `consumed` were read from it. A read of n bytes fails with an    *)
(* end-of-input error when fewer than n are left, and `?` returns it.      *)
(* length_remaining is a usize: when `-=` underflows, a build with         *)
(* overflow checks panics and a build without them wraps; the wrapped      *)
(* value 2^64 + d (d < 0) is kept as d with `wrapped` set.                 *)
(***************************************************************************)

\* Sizes in the input are whole 4-byte words, up to MaxWords words.
MaxWords == 9
Lengths == {4 * k : k \in 0..MaxWords}

\* reader.skip_bytes(4): "extra flags" and "octets to inline qos".
ExtraBytes == 4
\* <EntityId_t as Readable>::minimum_bytes_needed()
EntityIdBytes == 4
\* <SequenceNumber_t as Readable>::minimum_bytes_needed()
SequenceNumberBytes == 8
\* <SerializedPayloadHeader as Readable>::minimum_bytes_needed()
PayloadHeaderBytes == 4
\* A Parameter on the wire: parameterId (u16), length (u16), value.
ParameterHeaderBytes == 4

INLINE_QOS_FLAG_MASK == 2
DATA_FLAG_MASK == 4
KEY_FLAG_MASK == 8
NON_STANDARD_PAYLOAD_FLAG_MASK == 16

\* The flag bytes made of the four bits DataSubmessageFlags looks at.
DataFlagBytes ==
    {a + b + c + d : a \in {0, INLINE_QOS_FLAG_MASK}, b \in {0, DATA_FLAG_MASK},
                     c \in {0, KEY_FLAG_MASK},
                     d \in {0, NON_STANDARD_PAYLOAD_FLAG_MASK}}

inline_qos(f) == IsFlagSet(f, INLINE_QOS_FLAG_MASK)
data_payload(f) == IsFlagSet(f, DATA_FLAG_MASK) /\ ~IsFlagSet(f, KEY_FLAG_MASK)
key_payload(f) == ~IsFlagSet(f, DATA_FLAG_MASK) /\ IsFlagSet(f, KEY_FLAG_MASK)
non_standard_payload(f) == IsFlagSet(f, NON_STANDARD_PAYLOAD_FLAG_MASK)
any_payload(f) == data_payload(f) \/ key_payload(f) \/ non_standard_payload(f)

\* The parameter lists of the input: the value lengths of the parameters
\* before the sentinel.
ParameterLists == {<<>>, <<0>>}

\* subtract_from_remaining: self.length_remaining -= length.
SubtractFromRemaining(s, n) ==
    IF s.wrapped \/ s.length_remaining >= n
    THEN [s EXCEPT !.length_remaining = @ - n]
    ELSE IF s.build = "debug"
    THEN [s EXCEPT !.status = "panic"]
    ELSE [s EXCEPT !.length_remaining = @ - n, !.wrapped = TRUE]

\* A read of n bytes from the Reader.
ReadBytes(s, n) ==
    IF s.buf >= n
    THEN [s EXCEPT !.buf = @ - n, !.consumed = @ + n]
    ELSE [s EXCEPT !.status = "err"]

\* let x = reader.read_value()?; subtract_from_remaining(n);
ReadTracked(s, n) ==
    LET r == ReadBytes(s, n) IN
    IF r.status # "reading" THEN r ELSE SubtractFromRemaining(r, n)

\* Parameter::read_from: the header and the value; whether it tells the
\* context is s.tracks.
ReadParameter(s, len) ==
    LET r == ReadBytes(s, ParameterHeaderBytes + len) IN
    IF r.status # "reading" \/ ~s.tracks THEN r
    ELSE SubtractFromRemaining(r, ParameterHeaderBytes + len)

RECURSIVE ReadParameterList(_, _)
\* ParameterList::read_from: read parameters up to the sentinel.
ReadParameterList(s, ps) ==
    IF s.status # "reading" THEN s
    ELSE IF ps = <<>> THEN ReadParameter(s, 0)
    ELSE ReadParameterList(ReadParameter(s, Head(ps)), Tail(ps))

\* SerializedPayload::read_from after the header: a ParameterList, or
\* length_remaining bytes of user-defined data.
ReadPayloadContent(s) ==
    IF s.is_pl THEN ReadParameterList(s, s.qos)
    ELSE IF s.wrapped
    THEN \* vec![0; n] with n near 2^64: capacity overflow
         [s EXCEPT !.status = "panic"]
    ELSE [ReadBytes(s, s.length_remaining)
            EXCEPT !.payload = Some(s.length_remaining)]

\* A step of read_from moves to `next`, or ends the read on an error.
Advance(s, next) ==
    IF s.status # "reading" THEN [s EXCEPT !.pc = "done"]
    ELSE IF next = "done" THEN [s EXCEPT !.pc = "done", !.status = "ok"]
    ELSE [s EXCEPT !.pc = next, !.before = s.consumed]

AfterSn(s) ==
    IF inline_qos(s.flags) THEN "inline_qos"
    ELSE IF any_payload(s.flags) THEN "payload_header" ELSE "done"

\* DataContext::new(flags, length_remaining) and a Reader over some input.
DataInit ==
    /\ ActorInit
    /\ flag = NoFlag
    /\ sh = NoCells
    /\ lk = NoLocks
    /\ rd \in {[NoData EXCEPT !.pc = "extra", !.status = "reading",
                               !.flags = f, !.initial = l,
                               !.length_remaining = l, !.buf = b, !.qos = q,
                               !.is_pl = pl, !.build = bd, !.tracks = tr] :
                f \in DataFlagBytes, l \in Lengths, b \in Lengths,
                q \in ParameterLists, pl \in BOOLEAN,
                bd \in {"debug", "release"}, tr \in BOOLEAN}

SkipExtra ==
    /\ rd.pc = "extra"
    /\ rd' = Advance(ReadTracked(rd, ExtraBytes), "reader_id")
    /\ UNCHANGED <<actorVars, flag, sh, lk>>

ReadReaderId ==
    /\ rd.pc = "reader_id"
    /\ rd' = Advance(ReadTracked(rd, EntityIdBytes), "writer_id")
    /\ UNCHANGED <<actorVars, flag, sh, lk>>

ReadWriterId ==
    /\ rd.pc = "writer_id"
    /\ rd' = Advance(ReadTracked(rd, EntityIdBytes), "writer_sn")
    /\ UNCHANGED <<actorVars, flag, sh, lk>>

ReadWriterSn ==
    /\ rd.pc = "writer_sn"
    /\ rd' = Advance(ReadTracked(rd, SequenceNumberBytes), AfterSn(rd))
    /\ UNCHANGED <<actorVars, flag, sh, lk>>

ReadInlineQos ==
    /\ rd.pc = "inline_qos"
    /\ rd' = Advance(ReadParameterList(rd, rd.qos),
                     IF any_payload(rd.flags) THEN "payload_header" ELSE "done")
    /\ UNCHANGED <<actorVars, flag, sh, lk>>

ReadPayloadHeader ==
    /\ rd.pc = "payload_header"
    /\ rd' = Advance(ReadTracked(rd, PayloadHeaderBytes), "payload")
    /\ UNCHANGED <<actorVars, flag, sh, lk>>

ReadPayload ==
    /\ rd.pc = "payload"
    /\ rd' = Advance(ReadPayloadContent(rd), "done")
    /\ UNCHANGED <<actorVars, flag, sh, lk>>

DataNext ==
    \/ SkipExtra
    \/ ReadReaderId
    \/ ReadWriterId
    \/ ReadWriterSn
    \/ ReadInlineQos
    \/ ReadPayloadHeader
    \/ ReadPayload

DataSpec == DataInit /\ [][DataNext]_vars

(***************************************************************************)
(* Properties                                                              *)
(***************************************************************************)

IsPrefix(a, b) == Len(a) <= Len(b) /\ \A i \in 1..Len(a) : a[i] = b[i]

Running == mailboxAlive /\ ~cancel_flag

\* C1: requests enqueued while the actor is running and no shutdown is
\* requested are passed to the actor's handle, in the order of their
\* enqueue: the served sequence stays a prefix of the issued one, and every
\* queued request is eventually served unless the actor stops running.
C1_FifoService ==
    /\ [] IsPrefix(served, issued)
    /\ \A c \in Calls :
        (c \in Range(pending) /\ Running)
            ~> (c \in Range(served) \/ ~Running)

\* C2: under fair scheduling every call to Address::handle eventually
\* completes, with Ok(response), Err(Abort) or Err(Shutdown).
C2_EveryCallCompletes ==
    \A c \in Calls :
        (caller[c] = "parked")
            ~> (/\ caller[c] = "done"
                /\ \/ result[c] = Some(Err(Abort))
                   \/ result[c] = Some(Err(Shutdown))
                   \/ \E v \in {F(r) : r \in Reqs} : result[c] = Some(Ok(v)))

\* C3: a call handle(r) on a running actor completes with exactly Ok(F(r)).
C3_RoundTrip ==
    \A c \in Calls :
        (caller[c] = "parked" /\ Running)
            ~> (result[c] = Some(Ok(F(reqOf[c]))) \/ ~Running)

\* C4: when the Mailbox is dropped with no shutdown requested, every channel
\* of the pending queue is resolved with Err(Abort), its awaiting caller is
\* woken, and the queue is left empty.
C4_DropAbortsAll ==
    [][(mailboxAlive /\ ~mailboxAlive' /\ ~cancel_flag) =>
        /\ pending' = <<>>
        /\ \A c \in Range(pending) :
            /\ response'[c] = Some(Err(Abort))
            /\ caller[c] = "parked" => c \in notified']_vars

\* C4 witness: the Mailbox was dropped with two channels pending and no
\* shutdown; both hold Err(Abort) and both callers are woken.
C4_Witness ==
    /\ ~mailboxAlive
    /\ ~cancel_flag
    /\ pending = <<>>
    /\ Len(issued) >= 2
    /\ \A c \in Range(issued) :
        response[c] = Some(Err(Abort)) /\ c \in notified

\* C5: after shutdown(), every channel of the pending queue eventually
\* resolves to Err(Shutdown), unless the driving task is destroyed from
\* outside before it ran again.
C5_ShutdownResolvesPending ==
    \A c \in Calls :
        (cancel_flag /\ c \in Range(pending))
            ~> (\/ response[c] = Some(Err(Shutdown))
                \/ result[c] = Some(Err(Shutdown))
                \/ driver = "aborted")

\* C6: after shutdown(), the driving task eventually terminates and its
\* JoinHandle yields the actor, moved out of the Mailbox, unless the task is
\* destroyed from outside before it ran again.
C6_DriverHandsBackActor ==
    cancel_flag
        ~> (\/ driver = "done" /\ joined # None /\ actor = None
            \/ driver = "aborted")

\* C7: a handle call issued after shutdown() returned resolves to
\* Err(Shutdown), never to Ok or Err(Abort).
C7_LateCallGetsShutdown ==
    \A c \in lateCalls :
        caller[c] = "done" => result[c] = Some(Err(Shutdown))

\* C8: no lost wake-up on a channel: once wake_with_response has returned,
\* a caller whose poll returned Pending has been woken.
C8_NoLostChannelWakeup ==
    \A c \in Calls :
        (caller[c] = "parked" /\ tx[c].pc = "done") => c \in notified

\* C9: no lost wake-up on the mailbox: a driving task that is suspended on
\* the Mailbox has its resumption handle stored in mailbox_waker, for the
\* next handle() or shutdown() to fire.
C9_DriverWakerStored ==
    (driver = "parked" /\ mailboxAlive) => mailbox_waker # "None"

\* C10: two calls handle(a) and handle(b) made concurrently from two Address
\* clones of a running actor receive Ok(F(a)) and Ok(F(b)) respectively.
C10_ConcurrentCalls ==
    \A c, d \in Calls :
        (c # d /\ caller[c] = "parked" /\ caller[d] = "parked" /\ Running)
            ~> (\/ /\ result[c] = Some(Ok(F(reqOf[c])))
                   /\ result[d] = Some(Ok(F(reqOf[d])))
                \/ ~Running)

\* C11: a resolved channel delivers its response exactly once: the first
\* poll after the resolution returns the value; every later poll returns
\* Pending, delivers nothing and leaves what the caller received untouched.
C11_DeliveredOnce ==
    [][\A c \in Calls :
        /\ deliveries'[c] <= 1
        /\ (caller[c] = "parked" /\ response[c] # None
                /\ c \in notified /\ c \notin notified')
            => (caller'[c] = "done" /\ result'[c] = response[c]
                /\ response'[c] = None /\ deliveries'[c] = 1)
        /\ caller[c] = "done"
            => (caller'[c] = "done" /\ result'[c] = result[c]
                /\ deliveries'[c] = deliveries[c])]_vars

\* C11 witness: a caller received its response, was polled again, got
\* Pending (its waker is stored again) and still counts one delivery.
C11_Witness ==
    \E c \in Calls :
        /\ caller[c] = "done"
        /\ deliveries[c] = 1
        /\ result[c] = Some(Err(Abort))
        /\ waker[c] = "caller"
        /\ response[c] = None

\* C12 (as claimed): when a channel is resolved twice before the caller
\* consumed the response, the second resolution leaves the stored response
\* as it was and the caller receives the value of the first resolution.
C12_FirstWriteWins ==
    [][\A c \in Chans :
        /\ (tx[c].pc = "done" /\ tx'[c].pc = "wrote2" /\ response[c] # None)
            => response'[c] = response[c]
        /\ (caller[c] # "done" /\ caller'[c] = "done"
                /\ tx[c].pc \in {"wrote2", "done2"})
            => result'[c] = Some(Ok(F(reqOf[c])))]_vars

\* C12 (amended): when a channel is resolved twice before the caller
\* consumed the response, the second resolution overwrites the stored
\* response and the caller receives the value of the second resolution.
C12_LastWriteWins ==
    [][\A c \in Chans :
        /\ (tx[c].pc = "done" /\ tx'[c].pc = "wrote2")
            => response'[c] = tx'[c].second
        /\ (caller[c] # "done" /\ caller'[c] = "done"
                /\ tx[c].pc \in {"wrote2", "done2"})
            => result'[c] = tx[c].second]_vars

\* C12 witness: both resolutions were made, the second with another value
\* than the first, and the caller then received the second one.
C12_Witness ==
    \E c \in Chans :
        /\ tx[c].pc = "done2"
        /\ caller[c] = "done"
        /\ tx[c].second # Some(Ok(F(reqOf[c])))
        /\ result[c] = tx[c].second

\* C16: take_request returns the request on the first call and empty on
\* every later call, on any clone; the cell is empty from the first call on.
C16_RequestTakenOnce ==
    \A c \in Chans :
        tx[c].pc # "idle" =>
            /\ tx[c].req = Some(reqOf[c])
            /\ request[c] = None
            /\ tx[c].retaken => tx[c].req2 = None

\* C16 witness: the request was taken, and take_request was called again.
C16_Witness ==
    \E c \in Chans :
        /\ tx[c].req = Some(reqOf[c])
        /\ tx[c].retaken
        /\ tx[c].req2 = None

\* A step of the driving task, or the destruction of its Mailbox.
DriverOrDropStep ==
    \/ driver = "scheduled" /\ mailboxAlive
    \/ mailboxAlive /\ ~mailboxAlive'

\* C15: the actor's state is touched, and its handle invoked, only in a step
\* of the one driving task (or when the Mailbox is destroyed); no step of
\* Address::handle or Address::shutdown changes the actor or invokes it.
C15_ActorOnlyByDriver ==
    [][/\ (actor' # actor \/ served' # served) => DriverOrDropStep
       /\ (issued' # issued \/ cancel_flag' # cancel_flag \/ reshut' # reshut)
            => (actor' = actor /\ served' = served)]_vars

\* C15 witness: handle() and shutdown() have been called on a live Mailbox
\* and the actor is as it was handed to start_mailbox_loop.
C15_Witness ==
    /\ Len(issued) >= 1
    /\ cancel_flag
    /\ mailboxAlive
    /\ driver = "parked"
    /\ actor = Some(InitialActor)

\* C17: shutdown() is idempotent: a call made with the flag already set
\* leaves the flag, the queue, every channel and every task as they were,
\* and the driving task ends its sequence (once) all the same.
C17_ShutdownIdempotent ==
    /\ [][reshut' # reshut =>
            UNCHANGED <<request, response, waker, pending, mailbox_waker,
                        cancel_flag, actor, mailboxAlive, driver, joined,
                        caller, notified, result, issued, served>>]_vars
    /\ reshut ~> (driver = "done" \/ driver = "aborted")

\* C18: shutdown() itself resolves no channel and removes nothing from the
\* queue: it sets cancel_flag and empties the mailbox waker slot, nothing
\* else of the channels, the queue or the callers changes.
C18_ShutdownFrame ==
    [][(cancel_flag' # cancel_flag \/ reshut' # reshut) =>
        /\ cancel_flag'
        /\ mailbox_waker' = "None"
        /\ UNCHANGED <<pending, request, response, waker, notified, caller,
                       result, actor, mailboxAlive>>]_vars

\* C18 witness: shutdown() was called with a channel pending; the channel is
\* still queued and unresolved, its caller still waits.
C18_Witness ==
    /\ cancel_flag
    /\ mailboxAlive
    /\ Len(pending) >= 1
    /\ \A c \in Range(pending) : response[c] = None /\ caller[c] = "parked"

\* C19: after a caller dropped its awaitable, the actor side still resolves
\* that channel, and the requests queued behind it are still served.
C19_DroppedCallerHarmless ==
    \A c, d \in Calls :
        /\ (caller[c] = "dropped" /\ c \in Range(pending) /\ Running)
            ~> (response[c] # None \/ ~Running)
        /\ (c # d /\ caller[c] = "dropped" /\ d \in Range(pending) /\ Running)
            ~> (d \in Range(served) \/ ~Running)

\* C20: for every flags byte and every single-bit mask, is_flag_set(mask) is
\* true after set_flag(mask) and false after clear_flag(mask), and every
\* bit outside the mask is as it was before.
C20_SetClearFlag ==
    /\ flag.op = "set" => IsFlagSet(flag.flags, flag.mask)
    /\ flag.op = "clear" => ~IsFlagSet(flag.flags, flag.mask)
    /\ flag.op # "new" =>
        \A i \in 0..(BitWidth - 1) :
            2^i # flag.mask => Bit(flag.flags, i) = Bit(flag.prev, i)
    /\ flag.flags \in U8

\* C20 witness: a set bit was cleared while other bits of the byte were set.
C20_Witness ==
    /\ flag.op = "clear"
    /\ IsFlagSet(flag.prev, flag.mask)
    /\ flag.flags # 0
    /\ flag.flags # flag.prev

\* C21: endianness_flag returns LittleEndian exactly when bit 0 of the flags
\* byte is set and BigEndian otherwise, whatever the other seven bits are.
C21_EndiannessIsBitZero ==
    flag.op = "endianness" =>
        /\ flag.out = (IF Bit(flag.flags, 0) = 1
                       THEN "LittleEndian" ELSE "BigEndian")
        /\ \A g \in U8 :
            Bit(g, 0) = Bit(flag.flags, 0) => EndiannessFlag(g) = flag.out

\* C21 witness: endianness_flag answered BigEndian for a byte with bit 0
\* clear and other bits set.
C21_Witness ==
    /\ flag.op = "endianness"
    /\ flag.out = "BigEndian"
    /\ flag.flags # 0

\* C22 (as claimed): the call handle() itself appends the new channel at the
\* tail of the pending queue, before the returned awaitable is polled; a
\* call whose awaitable is never polled has its request in the queue.
C22_EnqueuedByTheCall ==
    [][\A c \in Calls :
        (caller[c] = "idle" /\ caller'[c] = "called")
            => (pending' = Append(pending, c)
                /\ request'[c] = Some(reqOf'[c])
                /\ mailbox_waker' = "None")]_vars

\* C22 (amended): the call handle() changes nothing; the first poll of the
\* returned awaitable appends the new channel at the tail of the pending
\* queue and fires the mailbox's resumption handle; a call whose awaitable
\* is never polled leaves no request in the queue.
C22_EnqueuedByTheFirstPoll ==
    [][\A c \in Calls :
        /\ (caller[c] = "idle" /\ caller'[c] = "called")
            => UNCHANGED <<pending, request, response, waker, mailbox_waker,
                           driver, notified, issued>>
        /\ (caller[c] = "called" /\ caller'[c] \in {"parked", "done"})
            => (pending' = Append(pending, c)
                /\ request'[c] = Some(reqOf[c])
                /\ mailbox_waker' = "None")
        /\ (caller[c] = "called" /\ caller'[c] \notin {"parked", "done"})
            => (c \notin Range(pending') /\ c \notin Range(issued')
                /\ request'[c] = None)]_vars

\* C22 witness: one awaitable was never polled and dropped, leaving nothing
\* in the queue, while another call's first poll queued its channel.
C22_Witness ==
    \E c, d \in Calls :
        /\ caller[c] = "dropped"
        /\ reqOf[c] # 0
        /\ request[c] = None
        /\ caller[d] = "parked"
        /\ mailboxAlive
        /\ pending = <<d>>

\* C24: a caller receives Err(Shutdown) only if shutdown() was called before
\* that resolution, and Err(Abort) only if the Mailbox was destroyed before
\* the request was serviced; a request the actor has handled is never
\* resolved with an error.
C24_ErrorProvenance ==
    \A c \in Calls :
        /\ (response[c] = Some(Err(Shutdown)) \/ result[c] = Some(Err(Shutdown)))
            => cancel_flag
        /\ (response[c] = Some(Err(Abort)) \/ result[c] = Some(Err(Abort)))
            => (~mailboxAlive /\ c \notin Range(served))
        /\ c \in Range(served)
            => (/\ response[c] \notin {Some(Err(Abort)), Some(Err(Shutdown))}
                /\ result[c] \notin {Some(Err(Abort)), Some(Err(Shutdown))})

\* C24 witness: with no shutdown requested, a caller was polled after the
\* Mailbox was destroyed and received Err(Abort) for its unserviced request.
C24_Witness ==
    \E c \in Calls :
        /\ caller[c] = "done"
        /\ result[c] = Some(Err(Abort))
        /\ ~cancel_flag
        /\ ~mailboxAlive
        /\ c \notin Range(served)

\* C26: for both cell families all clones of a Shared Cell alias one value:
\* after a call_mut through any clone, a call or call_mut through any other
\* clone observes the updated value, and cloning never copies the value.
C26_ClonesAliasOneValue ==
    /\ sh.last.op = "call"
        => sh.last.value = sh.written[sh.root[sh.last.h]]
    /\ \A h, g \in Handles :
        (sh.root[h] # 0 /\ sh.root[h] = sh.root[g])
            => (/\ sh.cellOf[h] = sh.cellOf[g]
                /\ sh.val[sh.cellOf[g]] = sh.written[sh.root[h]])

\* C26 witness: cells of both families exist; a call through one handle read
\* a value that was written through another handle, a clone, of the cell.
C26_Witness ==
    /\ \E h, g \in Handles : sh.fam[h] = "RcRefCell" /\ sh.fam[g] = "ArcRwLock"
    /\ sh.last.op = "call"
    /\ sh.root[sh.last.h] # sh.last.h
    /\ sh.last.value # 0

\* The three resources an Address and its Mailbox share.
SharedResources == {<<"pending", 0>>, <<"mailbox_waker", 0>>, <<"cancel_flag", 0>>}

\* C25: in MultiThreadedAddress the pending queue, the mailbox resumption
\* handle and the cancel flag are all held in synchronized cells: a thread
\* that is inside one of them (as shutdown() is inside the cancel flag) is
\* inside a synchronized cell, and it is the only thread inside it.
C25_SharedResourcesSynchronized ==
    lk.alias = "MultiThreadedAddress" =>
        \A x \in SharedResources :
            lk.held[x] # {} =>
                /\ FamilyOf(lk.alias, x) = "ArcRwLock"
                /\ Cardinality(lk.held[x]) = 1

\* The place of a cell in the order of nested acquisitions; 0 for the cells
\* that take no part in nesting.
Rank(x) ==
    CASE x[1] = "pending" -> 1
      [] x[1] = "response" -> 2
      [] x[1] = "waker" -> 3
      [] OTHER -> 0

\* C29: no operation acquires a cell it already holds; nested acquisitions
\* follow the order pending queue, channel response, channel resumption
\* handle; no thread fails on a borrow, and while some operation is
\* unfinished some thread can take a step (no deadlock).
C29_LockDiscipline ==
    /\ lk.failure = "none"
    /\ \A t \in LockThreads :
        (lk.pc[t] # <<>> /\ Head(lk.pc[t])[1] = "acq") =>
            \A h \in HeldBy(lk, t) :
                /\ Rank(h) > 0
                /\ Rank(h) < Rank(Head(lk.pc[t])[2])
    /\ (\E t \in LockThreads : Runnable(lk, t))
        => (\E t \in LockThreads : CanStep(lk, t))

\* C29 witness: with the synchronized cells, the thread dropping the Mailbox
\* holds the queue and, nested in it, a channel's waker, while that
\* channel's caller waits for the same waker and shutdown() is under way.
C29_Witness ==
    \E c \in Chans :
        /\ lk.alias = "MultiThreadedAddress"
        /\ <<"drop", 0>> \in lk.held[<<"pending", 0>>]
        /\ <<"drop", 0>> \in lk.held[<<"waker", c>>]
        /\ Blocked(lk, <<"handle", c>>)
        /\ <<"shutdown", 0>> \in lk.held[<<"mailbox_waker", 0>>]

\* C27: every enqueued channel is resolved by the actor side at most once,
\* with Ok(response), Err(Shutdown) or Err(Abort); the step that resolves it
\* removes it from the pending queue, it never enters the queue again, and
\* its request is passed to the actor's handle at most once.
C27_ResolvedAtMostOnce ==
    [][\A c \in Calls :
        /\ (response'[c] # None /\ response'[c] # response[c])
            => (/\ c \in Range(pending)
                /\ c \notin Range(pending')
                /\ response[c] = None
                /\ result[c] = None
                /\ response'[c] \in {Some(Ok(F(reqOf[c]))), Some(Err(Shutdown)),
                                     Some(Err(Abort))})
        /\ (c \notin Range(pending) /\ c \in Range(pending'))
            => (caller[c] = "idle" /\ c \notin Range(issued))
        /\ (served' # served /\ served' = Append(served, c))
            => c \notin Range(served)]_vars

\* C27 witness: two channels were queued and both were resolved, by the
\* destruction of the Mailbox, which left the queue empty; one caller has
\* consumed its Err(Abort), the other response is still stored.
C27_Witness ==
    \E c, d \in Calls :
        /\ c # d
        /\ ~mailboxAlive
        /\ pending = <<>>
        /\ result[c] = Some(Err(Abort))
        /\ response[c] = None
        /\ response[d] = Some(Err(Abort))

\* C30: while a Data submessage is read, length_remaining equals the
\* initial submessage length minus the number of bytes consumed so far and
\* never goes below zero (no underflow of the usize), and a user-defined
\* payload is read with exactly the number of bytes that remained in the
\* submessage, also after an inline QoS parameter list.
C30_LengthRemainingTracksInput ==
    /\ rd.status # "panic"
    /\ ~rd.wrapped
    /\ (rd.status = "reading" /\ rd.pc # "done")
        => rd.length_remaining = rd.initial - rd.consumed
    /\ rd.payload # None => Unwrap(rd.payload) = rd.initial - rd.before

====
